---- MODULE Spec2Model ----
(***************************************************************************)
(* A model of the graph6 / digraph6 codec of graph6-rs.                    *)
(*                                                                         *)
(* Byte strings are sequences of integers in 0..255 (1-indexed here, while *)
(* the Rust code is 0-indexed), bit vectors are sequences of 0/1.  Every   *)
(* function of the crate is an operator computed the way the code computes *)
(* it; a call that aborts (index out of bounds, unwrap on None, arithmetic *)
(* overflow in a build with overflow checks) yields a Panic result.        *)
(*                                                                         *)
(* `build` is the build profile: Rust's debug profile panics on integer    *)
(* overflow, the release profile wraps.  Both are outcomes the crate can   *)
(* produce, so Init chooses either.                                        *)
(***************************************************************************)
EXTENDS Integers, Sequences, FiniteSets

VARIABLES build, variant, pc, call, repr, adj, graph, out, reread, matrix, digraph, fb, sz

vars == <<build, variant, pc, call, repr, adj, graph, out, reread, matrix, digraph, fb, sz>>

(***************************************************************************)
(* Bounds of the model.                                                    *)
(***************************************************************************)
\* longest string handed to a decoder
MaxLen == 3
\* longest flattened matrix handed to Graph::from_adj
MaxAdjLen == 9
\* largest vertex count handed to write_graph6 for a directed graph
MaxDiN == 7
\* most bytes and largest target length handed to fill_bitvector
MaxFillBytes == 3
MaxFillLen == 7

(***************************************************************************)
(* Results.  A Result<Graph, IOError> (or an abort) is a record of one     *)
(* shape, so that any two results can be compared.                         *)
(***************************************************************************)
NoGraph == [tag |-> "None", kind |-> "none", n |-> 0, bit_vec |-> <<>>]
Panic == [tag |-> "Panic", kind |-> "none", n |-> 0, bit_vec |-> <<>>]
Err(k) == [tag |-> "Err", kind |-> k, n |-> 0, bit_vec |-> <<>>]
Ok(n, bv) == [tag |-> "Ok", kind |-> "none", n |-> n, bit_vec |-> bv]

\* the variants of IOError
IOError ==
    {"InvalidDigraphHeader", "InvalidSizeChar", "GraphTooLarge",
     "InvalidAdjacencyMatrix", "NonCanonicalEncoding"}

\* Result<usize, IOError>, Vec<usize> and String results
NoVal == [tag |-> "None", kind |-> "none", val |-> 0]
ErrVal(k) == [tag |-> "Err", kind |-> k, val |-> 0]
OkVal(v) == [tag |-> "Ok", kind |-> "none", val |-> v]
PanicVal == [tag |-> "Panic", kind |-> "none", val |-> 0]
NoVec == [tag |-> "None", vec |-> <<>>]
PanicVec == [tag |-> "Panic", vec |-> <<>>]
OkVec(v) == [tag |-> "Ok", vec |-> v]

(***************************************************************************)
(* Integer arithmetic of the build.                                        *)
(***************************************************************************)
OverflowChecks == build = "debug"

\* u8 subtraction a - b: its wrapped value
U8Sub(a, b) == (a - b) % 256

RECURSIVE Pow2(_)
Pow2(k) == IF k = 0 THEN 1 ELSE 2 * Pow2(k - 1)

\* the bits taken least significant first: (b >> i) & 1
Bits_lsb(b, count) == [i \in 1..count |-> (b \div Pow2(i - 1)) % 2]

\* (b >> (5 - i)) & 1 for i = 0..count-1, as a sequence
Bits(b, count) == [i \in 1..count |-> (b \div Pow2(6 - i)) % 2]

\* n * (n - 1) / 2 in usize: n - 1 overflows for n = 0; wrapped, the product
\* 0 * (2^64 - 1) is 0
TriLenOverflows(n) == n = 0
TriLen(n) == IF n = 0 THEN 0 ELSE (n * (n - 1)) \div 2

(***************************************************************************)
(* utils.rs                                                                *)
(***************************************************************************)
\* The loop of fill_bitvector from byte k on, with acc pushed so far
\* (pos = Len(acc)).  The inner `break` leaves only the inner loop: the
\* outer loop goes on to the next byte.
RECURSIVE fill_loop(_, _, _, _)
fill_loop(bytes, size, k, acc) ==
    IF k > Len(bytes) THEN OkVec(acc)
    ELSE IF bytes[k] < 63 /\ OverflowChecks THEN PanicVec
    ELSE LET b == U8Sub(bytes[k], 63)
             pos == Len(acc)
             pushed == IF pos < size /\ size - pos <= 6 THEN size - pos ELSE 6
         IN  fill_loop(bytes, size, k + 1, acc \o Bits(b, pushed))

fill_bitvector(bytes, size, offset) == fill_loop(bytes, size, offset + 1, <<>>)

\* get_size with the reserved marker tested by >=
get_size_ge(bytes, pos) ==
    LET size == bytes[pos + 1]
    IN  IF size >= 126 THEN ErrVal("GraphTooLarge")
        ELSE IF size < 63 THEN ErrVal("InvalidSizeChar")
        ELSE OkVal(size - 63)

get_size(bytes, pos) ==
    LET size == bytes[pos + 1]
    IN  IF size = 126 THEN ErrVal("GraphTooLarge")
        ELSE IF size < 63 THEN ErrVal("InvalidSizeChar")
        ELSE OkVal(size - 63)

\* the pairs (i, j), 1 <= i < n, 0 <= j < i, in the order the loops visit them
TriIndex(i, j) == (i * (i - 1)) \div 2 + j + 1

upper_triangle(bit_vec, n) ==
    IF TriLenOverflows(n) /\ OverflowChecks THEN PanicVec
    ELSE LET rowOf(k) == CHOOSE i \in 1..n : TriIndex(i, 0) <= k /\ k < TriIndex(i + 1, 0)
         IN  OkVec([k \in 1..TriLen(n) |->
                      LET i == rowOf(k)
                          j == k - TriIndex(i, 0)
                      IN  bit_vec[i * n + j + 1]])

(***************************************************************************)
(* undirected.rs                                                           *)
(***************************************************************************)
\* tri_iter.next().unwrap() aborts when the triangle runs out
fill_from_triangle(tri, n) ==
    IF Len(tri) < TriLen(n) THEN PanicVec
    ELSE OkVec([k \in 1..(n * n) |->
                  LET i == (k - 1) \div n
                      j == (k - 1) % n
                  IN  IF i > j THEN tri[TriIndex(i, j)]
                      ELSE IF j > i THEN tri[TriIndex(j, i)]
                      ELSE 0])

Graph_build_bitvector(bytes, n) ==
    IF TriLenOverflows(n) /\ OverflowChecks THEN PanicVec
    ELSE LET bit_vec == fill_bitvector(bytes, TriLen(n), 1)
         IN  IF bit_vec.tag = "Panic" THEN PanicVec
             ELSE fill_from_triangle(bit_vec.vec, n)

from_g6(s) ==
    IF Len(s) = 0 THEN Panic
    ELSE LET n == get_size(s, 0)
         IN  IF n.tag = "Err" THEN Err(n.kind)
             ELSE LET bit_vec == Graph_build_bitvector(s, n.val)
                  IN  IF bit_vec.tag = "Panic" THEN Panic
                      ELSE Ok(n.val, bit_vec.vec)

\* (n2 as f64).sqrt() as usize: the integer square root
Isqrt(n2) == CHOOSE n \in 0..n2 : n * n <= n2 /\ n2 < (n + 1) * (n + 1)

\* from_adj's loop without the write to the mirrored entry
RECURSIVE from_adj_loop_nomirror(_, _, _, _)
from_adj_loop_nomirror(a, n, k, bit_vec) ==
    IF k >= n * n THEN bit_vec
    ELSE IF a[k + 1] = 1
         THEN from_adj_loop_nomirror(a, n, k + 1, [bit_vec EXCEPT ![k + 1] = 1])
         ELSE from_adj_loop_nomirror(a, n, k + 1, bit_vec)

\* The double loop of from_adj from flattened position k = i * n + j on.
RECURSIVE from_adj_loop(_, _, _, _)
from_adj_loop(a, n, k, bit_vec) ==
    IF k >= n * n THEN bit_vec
    ELSE LET i == k \div n
             j == k % n
             idx == i * n + j
             jdx == j * n + i
         IN  IF a[idx + 1] = 1
             THEN from_adj_loop(a, n, k + 1,
                                [bit_vec EXCEPT ![idx + 1] = 1, ![jdx + 1] = 1])
             ELSE from_adj_loop(a, n, k + 1, bit_vec)

from_adj(a) ==
    LET n2 == Len(a)
        n == Isqrt(n2)
    IN  IF n * n # n2 THEN Err("InvalidAdjacencyMatrix")
        ELSE Ok(n, from_adj_loop(a, n, 0, [k \in 1..(n * n) |-> 0]))

(***************************************************************************)
(* write.rs                                                                *)
(***************************************************************************)
write_header(is_directed) == IF is_directed THEN <<38>> ELSE <<>>

\* char::from_u32(size + 63): one byte for every size up to 64
write_size(size) == <<size + 63>>

\* pad_bitvector without its test of len % 6
pad_bitvector_always(bit_vec) ==
    bit_vec \o [k \in 1..(6 - (Len(bit_vec) % 6)) |-> 0]

pad_bitvector(bit_vec) ==
    IF Len(bit_vec) % 6 # 0
    THEN bit_vec \o [k \in 1..(6 - (Len(bit_vec) % 6)) |-> 0]
    ELSE bit_vec

\* sum of bit * 2^i over the chunk reversed
RECURSIVE chunk_sum(_)
chunk_sum(chunk) ==
    IF Len(chunk) = 0 THEN 0
    ELSE chunk[Len(chunk)] + 2 * chunk_sum(SubSeq(chunk, 1, Len(chunk) - 1))

parse_bitvector(bit_vec) ==
    [c \in 1..((Len(bit_vec) + 5) \div 6) |->
        LET lo == 6 * (c - 1) + 1
            hi == IF 6 * c <= Len(bit_vec) THEN 6 * c ELSE Len(bit_vec)
        IN  chunk_sum(SubSeq(bit_vec, lo, hi)) + 63]

write_graph6(bit_vec, n, is_directed) ==
    LET bv == IF is_directed THEN OkVec(bit_vec) ELSE upper_triangle(bit_vec, n)
    IN  IF bv.tag = "Panic" THEN PanicVec
        ELSE OkVec(write_header(is_directed) \o write_size(n)
                   \o parse_bitvector(pad_bitvector(bv.vec)))

(***************************************************************************)
(* directed.rs                                                             *)
(***************************************************************************)
\* valid_digraph comparing with >= instead of ==
valid_digraph_ge(s) == s[1] >= 38

valid_digraph(s) == s[1] = 38

\* (repr[1] - 63) as usize: no check of the byte, a u8 subtraction
DiGraph_get_size(s) ==
    IF Len(s) < 2 THEN PanicVal
    ELSE IF s[2] < 63 /\ OverflowChecks THEN PanicVal
    ELSE OkVal(U8Sub(s[2], 63))

\* len - (len - bv_len): the inner subtraction overflows when len < bv_len;
\* wrapped, the two subtractions cancel and leave bv_len
adjust_bitvector_len(bit_vec, bv_len) ==
    IF Len(bit_vec) < bv_len /\ OverflowChecks THEN PanicVec
    ELSE LET adj_bv_len == bv_len
         IN  OkVec([k \in 1..adj_bv_len |->
                      IF k <= Len(bit_vec) THEN bit_vec[k] ELSE 0])

\* the bits of bytes.iter().skip(2).take(n), six for each byte
RECURSIVE take_loop(_, _, _, _)
take_loop(bytes, last, k, acc) ==
    IF k > last THEN OkVec(acc)
    ELSE IF bytes[k] < 63 /\ OverflowChecks THEN PanicVec
    ELSE take_loop(bytes, last, k + 1, acc \o Bits(U8Sub(bytes[k], 63), 6))

DiGraph_build_bitvector(bytes, n) ==
    LET bv_len == n * n
        last == IF Len(bytes) < 2 + n THEN Len(bytes) ELSE 2 + n
        bit_vec == take_loop(bytes, last, 3, <<>>)
    IN  IF bit_vec.tag = "Panic" THEN PanicVec
        ELSE adjust_bitvector_len(bit_vec.vec, bv_len)

from_d6(s) ==
    IF Len(s) = 0 THEN Panic
    ELSE IF ~valid_digraph(s) THEN Err("InvalidDigraphHeader")
    ELSE LET n == DiGraph_get_size(s)
         IN  IF n.tag = "Panic" THEN Panic
             ELSE LET bit_vec == DiGraph_build_bitvector(s, n.val)
                  IN  IF bit_vec.tag = "Panic" THEN Panic
                      ELSE Ok(n.val, bit_vec.vec)

(***************************************************************************)
(* Inputs.                                                                 *)
(***************************************************************************)
\* '&', a byte below the size range, the sizes 0..6, data bytes with and
\* without low bits set, the largest size and the reserved marker
Alphabet == {38, 62, 63, 64, 65, 66, 67, 68, 69, 95, 119, 125, 126}

SeqsUpTo(S, m) == UNION {[1..k -> S] : k \in 0..m}

Strings == SeqsUpTo(Alphabet, MaxLen)

\* flattened matrices of any length, square or not
AdjInputs == SeqsUpTo({0, 1}, MaxAdjLen)

\* n * n matrices with at most two entries set
DiMatrices(n) ==
    {[k \in 1..(n * n) |-> IF k \in P THEN 1 ELSE 0] :
        P \in {{}} \cup {{p, q} : p, q \in 1..(n * n)}}

FillBytes == SeqsUpTo({62, 63, 64, 95, 119, 126}, MaxFillBytes)

(***************************************************************************)
(* The state machine: one call of the library per behaviour, followed by   *)
(* the calls a round trip makes on its result.  `call` is the function     *)
(* called first, `pc` how far the round trip has come.                     *)
(***************************************************************************)
Init ==
    /\ build \in {"debug", "release"}
    /\ variant = [repr |-> <<>>, graph |-> NoGraph]
    /\ pc = "idle"
    /\ call = "none"
    /\ repr = <<>>
    /\ adj = <<>>
    /\ graph = NoGraph
    /\ out = NoVec
    /\ reread = NoGraph
    /\ matrix = NoGraph
    /\ digraph = NoGraph
    /\ fb = [bytes |-> <<>>, size |-> 0, offset |-> 0, res |-> NoVec]
    /\ sz = [byte |-> 0, res |-> NoVal]

\* Graph::from_g6(repr)
FromG6 ==
    /\ pc = "idle"
    /\ \E s \in Strings :
        /\ repr' = s
        /\ graph' = from_g6(s)
    /\ pc' = "called"
    /\ call' = "from_g6"
    /\ UNCHANGED <<build, variant, adj, out, reread, matrix, digraph, fb, sz>>

\* Graph::from_adj(adj)
FromAdj ==
    /\ pc = "idle"
    /\ \E a \in AdjInputs :
        /\ adj' = a
        /\ graph' = from_adj(a)
    /\ pc' = "called"
    /\ call' = "from_adj"
    /\ UNCHANGED <<build, variant, repr, out, reread, matrix, digraph, fb, sz>>

\* graph.write_graph() on the Graph a constructor returned
WriteGraph ==
    /\ pc = "called"
    /\ call \in {"from_g6", "from_adj"}
    /\ graph.tag = "Ok"
    /\ out' = write_graph6(graph.bit_vec, graph.n, FALSE)
    /\ pc' = "written"
    /\ UNCHANGED <<build, variant, call, repr, adj, graph, reread, matrix, digraph, fb, sz>>

\* Graph::from_g6 on the string write_graph returned
ReadBack ==
    /\ pc = "written"
    /\ call \in {"from_g6", "from_adj"}
    /\ out.tag = "Ok"
    /\ reread' = from_g6(out.vec)
    /\ pc' = "reread"
    /\ UNCHANGED <<build, variant, call, repr, adj, graph, out, matrix, digraph, fb, sz>>

\* a size character and as many data characters as it asks for
ExactLength(s) ==
    /\ Len(s) >= 2
    /\ s[1] \in 63..125
    /\ Len(s) = 1 + (TriLen(s[1] - 63) + 5) \div 6

\* Graph::from_g6 once more, on repr with another last data character
FromG6Variant ==
    /\ pc = "called"
    /\ call = "from_g6"
    /\ ExactLength(repr)
    /\ \E b \in 63..126 :
        LET s == [repr EXCEPT ![Len(repr)] = b]
        IN  variant' = [repr |-> s, graph |-> from_g6(s)]
    /\ pc' = "variant"
    /\ UNCHANGED <<build, call, repr, adj, graph, out, reread, matrix, digraph, fb, sz>>

\* DiGraph::from_d6(repr)
FromD6 ==
    /\ pc = "idle"
    /\ \E s \in Strings :
        /\ repr' = s
        /\ digraph' = from_d6(s)
    /\ pc' = "called"
    /\ call' = "from_d6"
    /\ UNCHANGED <<build, variant, adj, graph, out, reread, matrix, fb, sz>>

\* write_graph6(M, n, true)
WriteDirected ==
    /\ pc = "idle"
    /\ \E n \in 1..MaxDiN : \E M \in DiMatrices(n) :
        /\ matrix' = Ok(n, M)
        /\ out' = write_graph6(M, n, TRUE)
    /\ pc' = "written"
    /\ call' = "write_graph6"
    /\ UNCHANGED <<build, variant, repr, adj, graph, reread, digraph, fb, sz>>

\* DiGraph::from_d6 on the string write_graph6 returned
ReadBackDirected ==
    /\ pc = "written"
    /\ call = "write_graph6"
    /\ out.tag = "Ok"
    /\ digraph' = from_d6(out.vec)
    /\ pc' = "reread"
    /\ UNCHANGED <<build, variant, call, repr, adj, graph, out, reread, matrix, fb, sz>>

\* utils::fill_bitvector(bytes, size, offset)
FillBitvector ==
    /\ pc = "idle"
    /\ \E bytes \in FillBytes : \E size \in 0..MaxFillLen : \E offset \in 0..1 :
        fb' = [bytes |-> bytes, size |-> size, offset |-> offset,
               res |-> fill_bitvector(bytes, size, offset)]
    /\ pc' = "called"
    /\ call' = "fill_bitvector"
    /\ UNCHANGED <<build, variant, repr, adj, graph, out, reread, matrix, digraph, sz>>

\* utils::get_size(&[b], 0)
GetSize ==
    /\ pc = "idle"
    /\ \E b \in 0..255 :
        sz' = [byte |-> b, res |-> get_size(<<b>>, 0)]
    /\ pc' = "called"
    /\ call' = "get_size"
    /\ UNCHANGED <<build, variant, repr, adj, graph, out, reread, matrix, digraph, fb>>

Next ==
    \/ FromG6
    \/ FromAdj
    \/ WriteGraph
    \/ ReadBack
    \/ FromG6Variant
    \/ FromD6
    \/ WriteDirected
    \/ ReadBackDirected
    \/ FillBitvector
    \/ GetSize

Spec == Init /\ [][Next]_vars

(***************************************************************************)
(* Concrete vectors of the crate's tests, as a check of the model.         *)
(***************************************************************************)
TestVectors ==
    /\ from_g6(<<65, 95>>) = Ok(2, <<0, 1, 1, 0>>)
    /\ from_g6(<<65, 63>>) = Ok(2, <<0, 0, 0, 0>>)
    /\ from_g6(<<66, 119>>) = Ok(3, <<0, 1, 1, 1, 0, 1, 1, 1, 0>>)
    /\ from_g6(<<67, 126>>) = Ok(4, <<0, 1, 1, 1, 1, 0, 1, 1, 1, 1, 0, 1, 1, 1, 1, 0>>)
    /\ from_d6(<<38, 65, 71>>) = Ok(2, <<0, 0, 1, 0>>)
    /\ from_d6(<<38, 66, 92, 111>>) = Ok(3, <<0, 1, 1, 1, 0, 1, 1, 1, 0>>)
    /\ from_d6(<<38, 67, 93, 124, 119>>)
         = Ok(4, <<0, 1, 1, 1, 1, 0, 1, 1, 1, 1, 0, 1, 1, 1, 1, 0>>)
    /\ from_d6(<<65, 71>>) = Err("InvalidDigraphHeader")
    /\ write_graph6(<<0, 1, 1, 0>>, 2, FALSE) = OkVec(<<65, 95>>)
    /\ write_graph6(<<0, 1, 1, 0>>, 2, TRUE) = OkVec(<<38, 65, 87>>)
    /\ write_graph6(<<0, 0, 1, 0>>, 2, TRUE) = OkVec(<<38, 65, 71>>)
    /\ fill_bitvector(<<66, 119>>, 9, 0) = OkVec(<<0, 0, 0, 0, 1, 1, 1, 1, 1>>)
    /\ fill_bitvector(<<66, 119>>, 4, 1) = OkVec(<<1, 1, 1, 0>>)
    /\ upper_triangle(<<0, 1, 1, 1, 0, 0, 1, 0, 0>>, 3) = OkVec(<<1, 1, 0>>)
    /\ from_adj(<<0, 0, 1, 0>>) = Ok(2, <<0, 1, 1, 0>>)
    /\ from_adj(<<0, 0, 1, 0, 1>>) = Err("InvalidAdjacencyMatrix")
    /\ get_size(<<126, 65, 71>>, 0) = ErrVal("GraphTooLarge")
    /\ get_size(<<62, 65, 71>>, 0) = ErrVal("InvalidSizeChar")
    /\ get_size(<<38, 65, 71>>, 1) = OkVal(2)

(***************************************************************************)
(* The claims.                                                             *)
(***************************************************************************)
CeilDiv6(x) == (x + 5) \div 6

\* bits of the upper triangle of n vertices
TriangleBits(n) == (n * (n - 1)) \div 2

Symmetric(g) ==
    \A i, j \in 0..(g.n - 1) :
        g.bit_vec[i * g.n + j + 1] = g.bit_vec[j * g.n + i + 1]

ZeroDiagonal(g) == \A i \in 0..(g.n - 1) : g.bit_vec[i * g.n + i + 1] = 0

Undirected == call \in {"from_g6", "from_adj"}

\* C1: for every Graph G a constructor of the undirected graph returned with
\* 1 <= n <= 62, write_graph succeeds and from_g6 of its string returns a graph
\* with the same n and the same bit_vec.
C1_UndirectedRoundTrip ==
    (Undirected /\ graph.tag = "Ok" /\ graph.n \in 1..62) =>
        /\ pc \in {"written", "reread"} => out.tag = "Ok"
        /\ pc = "reread" => reread = Ok(graph.n, graph.bit_vec)

\* C2: for every n in 1..62 and every n * n matrix M of 0/1, from_d6 of
\* write_graph6(M, n, true) succeeds with size n and bit_vec M.
C2_DirectedRoundTrip ==
    (call = "write_graph6" /\ matrix.n \in 1..62) =>
        /\ out.tag = "Ok"
        /\ Len(out.vec) = 2 + CeilDiv6(matrix.n * matrix.n)
        /\ pc = "reread" => digraph = Ok(matrix.n, matrix.bit_vec)

\* a size character with n >= 1, exactly the data characters the size asks
\* for, each in [63,126], and every padding bit of the last one zero
Canonical(s) ==
    /\ Len(s) >= 1
    /\ s[1] \in 64..125
    /\ LET n == s[1] - 63
           chars == CeilDiv6(TriangleBits(n))
           pad == 6 * chars - TriangleBits(n)
       IN  /\ Len(s) = 1 + chars
           /\ \A k \in 2..Len(s) : s[k] \in 63..126
           /\ chars > 0 => (s[Len(s)] - 63) % Pow2(pad) = 0

\* C3: for every canonical undirected string S, from_g6(S) succeeds and
\* write_graph of the result equals S byte for byte.
C3_CanonicalRoundTrip ==
    (call = "from_g6" /\ Canonical(repr)) =>
        /\ graph.tag = "Ok"
        /\ pc \in {"written", "reread"} => out = OkVec(repr)

\* a canonical string of 5 vertices, two data characters, written back
C3_Witness ==
    /\ call = "from_g6"
    /\ pc = "written"
    /\ Canonical(repr)
    /\ repr[1] = 68
    /\ repr[2] # 63
    /\ repr[3] # 63
    /\ out = OkVec(repr)

\* C4: every Graph a constructor returns is symmetric and has a zero diagonal.
C4_SymmetricZeroDiagonal ==
    (Undirected /\ graph.tag = "Ok") => Symmetric(graph) /\ ZeroDiagonal(graph)

\* fewer data characters than the size character requires
TruncatedG6(s) ==
    /\ Len(s) >= 1
    /\ s[1] \in 63..125
    /\ Len(s) - 1 < CeilDiv6(TriangleBits(s[1] - 63))

TruncatedD6(s) ==
    /\ Len(s) >= 2
    /\ s[1] = 38
    /\ s[2] \in 63..125
    /\ Len(s) - 2 < CeilDiv6((s[2] - 63) * (s[2] - 63))

\* an error value of a kind of its own
DistinctError(r) ==
    /\ r.tag = "Err"
    /\ r.kind \notin {"InvalidDigraphHeader", "InvalidSizeChar", "GraphTooLarge",
                      "InvalidAdjacencyMatrix"}

\* C5: on a truncated string either decoder returns Err with a distinct kind;
\* it neither aborts nor returns Ok with the missing bits zero.
C5_TruncatedIsError ==
    /\ (call = "from_g6" /\ TruncatedG6(repr)) => DistinctError(graph)
    /\ (call = "from_d6" /\ TruncatedD6(repr)) => DistinctError(digraph)

\* C6: from_d6 on a string starting with '&' applies the size codec to the
\* byte at offset 1: GraphTooLarge for 126, InvalidSizeChar below 63, and
\* otherwise it decodes with n = byte - 63.
C6_DirectedSizeValidation ==
    (call = "from_d6" /\ Len(repr) >= 2 /\ repr[1] = 38) =>
        /\ repr[2] = 126 => digraph = Err("GraphTooLarge")
        /\ repr[2] < 63 => digraph = Err("InvalidSizeChar")
        /\ (repr[2] \in 63..125 /\ digraph.tag = "Ok") => digraph.n = repr[2] - 63

\* C7: get_size returns Err(GraphTooLarge) for byte 126, Err(InvalidSizeChar)
\* below 63 and Ok(b - 63) otherwise, for every byte b in 0..255; from_g6
\* returns these two errors unchanged, and no other error.
C7_SizeCodec ==
    /\ call = "get_size" =>
        /\ sz.byte = 126 => sz.res = ErrVal("GraphTooLarge")
        /\ sz.byte < 63 => sz.res = ErrVal("InvalidSizeChar")
        /\ (sz.byte >= 63 /\ sz.byte # 126) => sz.res = OkVal(sz.byte - 63)
    /\ (call = "from_g6" /\ Len(repr) >= 1) =>
        /\ repr[1] = 126 => graph = Err("GraphTooLarge")
        /\ repr[1] < 63 => graph = Err("InvalidSizeChar")
        /\ (repr[1] >= 63 /\ repr[1] # 126) => graph.tag # "Err"

\* byte 125 decoded to the largest size, 62
C7_Witness ==
    /\ call = "get_size"
    /\ sz.byte = 125
    /\ sz.res = OkVal(62)

PerfectSquare(m) == \E n \in 0..m : n * n = m

\* C8: from_adj returns Err(InvalidAdjacencyMatrix) exactly when the length is
\* no perfect square; otherwise Ok with n * n = length and bit_vec[i*n+j] = 1
\* iff adj[i*n+j] = 1 or adj[j*n+i] = 1.
C8_FromAdj ==
    call = "from_adj" =>
        /\ graph.tag \in {"Ok", "Err"}
        /\ graph.tag = "Err" <=> ~PerfectSquare(Len(adj))
        /\ graph.tag = "Err" => graph.kind = "InvalidAdjacencyMatrix"
        /\ graph.tag = "Ok" =>
            /\ graph.n * graph.n = Len(adj)
            /\ Len(graph.bit_vec) = Len(adj)
            /\ \A i, j \in 0..(graph.n - 1) :
                LET idx == i * graph.n + j + 1
                    jdx == j * graph.n + i + 1
                IN  /\ graph.bit_vec[idx] \in {0, 1}
                    /\ graph.bit_vec[idx] = 1 <=> (adj[idx] = 1 \/ adj[jdx] = 1)

\* a 3 x 3 matrix with one entry below the diagonal, mirrored by from_adj
C8_Witness ==
    /\ call = "from_adj"
    /\ adj = <<0, 0, 0, 0, 0, 0, 0, 1, 0>>
    /\ graph = Ok(3, <<0, 0, 0, 0, 0, 1, 0, 1, 0>>)

\* C9: on a non-empty string from_d6 returns Err(InvalidDigraphHeader) iff the
\* first byte is not '&'; from_g6 never returns InvalidDigraphHeader.
C9_DigraphHeader ==
    /\ (call = "from_d6" /\ Len(repr) >= 1) =>
        (digraph = Err("InvalidDigraphHeader") <=> repr[1] # 38)
    /\ graph.kind # "InvalidDigraphHeader"
    /\ reread.kind # "InvalidDigraphHeader"

\* an undirected string refused by from_d6
C9_Witness ==
    /\ call = "from_d6"
    /\ repr = <<65, 95>>
    /\ digraph = Err("InvalidDigraphHeader")

\* C10: when at least ceil(len/6) bytes follow the offset, fill_bitvector
\* returns exactly len bits, the k-th being bit 5 - k mod 6 of
\* bytes[offset + k div 6] - 63; further bytes add nothing.
C10_FillExactly ==
    (/\ call = "fill_bitvector"
     /\ \A k \in 1..Len(fb.bytes) : fb.bytes[k] >= 63
     /\ Len(fb.bytes) - fb.offset >= CeilDiv6(fb.size)) =>
        /\ fb.res.tag = "Ok"
        /\ Len(fb.res.vec) = fb.size
        /\ \A k \in 0..(fb.size - 1) :
            fb.res.vec[k + 1] =
                ((fb.bytes[fb.offset + (k \div 6) + 1] - 63) \div Pow2(5 - (k % 6))) % 2

\* a size character in [63,125] followed by exactly the data characters the
\* size asks for, each in [63,126]
WellFormedG6(s) ==
    /\ Len(s) >= 1
    /\ s[1] \in 63..125
    /\ Len(s) = 1 + CeilDiv6(TriangleBits(s[1] - 63))
    /\ \A k \in 2..Len(s) : s[k] \in 63..126

\* C11: on every well-formed undirected string, n = 0 and n = 1 included,
\* from_g6 returns Ok with n = c - 63 and an n * n bit_vec of 0/1 entries; it
\* does not abort.
C11_WellFormedDecodes ==
    (call = "from_g6" /\ WellFormedG6(repr)) =>
        /\ graph.tag = "Ok"
        /\ graph.n = repr[1] - 63
        /\ Len(graph.bit_vec) = graph.n * graph.n
        /\ \A k \in 1..Len(graph.bit_vec) : graph.bit_vec[k] \in {0, 1}

\* padding bits of the last data character of a well-formed string
PadBits(s) ==
    6 * CeilDiv6(TriangleBits(s[1] - 63)) - TriangleBits(s[1] - 63)

\* two well-formed strings of n >= 2 with the same size character that agree
\* on the first n * (n - 1) / 2 bits
PaddingVariants(s1, s2) ==
    /\ WellFormedG6(s1)
    /\ WellFormedG6(s2)
    /\ s1[1] >= 65
    /\ s1[1] = s2[1]
    /\ \A k \in 2..(Len(s1) - 1) : s1[k] = s2[k]
    /\ (s1[Len(s1)] - 63) \div Pow2(PadBits(s1))
         = (s2[Len(s2)] - 63) \div Pow2(PadBits(s1))

\* s with the padding bits of its last data character cleared
ZeroPadded(s) ==
    [s EXCEPT ![Len(s)] = @ - ((@ - 63) % Pow2(PadBits(s)))]

\* C12: two undirected strings that differ only in padding bits decode to Ok
\* with identical n and bit_vec, and write_graph of that graph returns the
\* string whose padding bits are zero.
C12_PaddingIgnored ==
    /\ (pc = "variant" /\ PaddingVariants(repr, variant.repr)) =>
        /\ graph.tag = "Ok"
        /\ variant.graph.tag = "Ok"
        /\ variant.graph.n = graph.n
        /\ variant.graph.bit_vec = graph.bit_vec
    /\ (call = "from_g6" /\ PaddingVariants(repr, repr)) =>
        /\ graph.tag = "Ok"
        /\ pc \in {"written", "reread"} => out = OkVec(ZeroPadded(repr))

\* two strings of 5 vertices with different padding bits and the same graph
C12_Witness ==
    /\ pc = "variant"
    /\ PaddingVariants(repr, variant.repr)
    /\ repr[1] = 68
    /\ repr[3] = 95
    /\ variant.repr[3] = 98
    /\ variant.graph = graph
    /\ graph.tag = "Ok"
====
